---------------------------- MODULE Spec2Model ----------------------------
(***************************************************************************)
(* Model of phase_change_api.py: the module-level calibration constants,   *)
(* the derived parameters ML, MV, AL, AV computed at import, and the four  *)
(* request handlers of the FastAPI application.                            *)
(*                                                                         *)
(* Python floats are IEEE-754 binary64 values.  They are modelled exactly: *)
(* a finite float is sign * m * 2^e with the 53-bit significand m held as  *)
(* an arbitrary-precision natural, and every operation rounds its exact    *)
(* result to nearest, ties to even, as the hardware does.                  *)
(***************************************************************************)
EXTENDS Integers, Sequences, FiniteSets

(***************************************************************************)
(* Arbitrary-precision naturals: little-endian sequences of limbs in       *)
(* 0..Base-1 without a leading (most significant) zero limb; <<>> is 0.    *)
(* They carry the significands and the exact intermediate results of the   *)
(* float operations, which do not fit TLC's 32-bit integers.               *)
(***************************************************************************)
Base == 2^15

RECURSIVE IntBitLen(_)
IntBitLen(n) == IF n = 0 THEN 0 ELSE 1 + IntBitLen(n \div 2)

LimbBits == IntBitLen(Base - 1)

Min(a, b) == IF a < b THEN a ELSE b

Max(a, b) == IF a > b THEN a ELSE b

Rest(a) == IF a = <<>> THEN <<>> ELSE Tail(a)

Low(a) == IF a = <<>> THEN 0 ELSE a[1]

RECURSIVE BTrim(_)
BTrim(a) ==
    IF a = <<>> THEN a
    ELSE IF a[Len(a)] = 0 THEN BTrim(SubSeq(a, 1, Len(a) - 1)) ELSE a

RECURSIVE BFromInt(_)
BFromInt(n) == IF n = 0 THEN <<>> ELSE <<n % Base>> \o BFromInt(n \div Base)

RECURSIVE BAddC(_, _, _)
BAddC(a, b, c) ==
    IF a = <<>> /\ b = <<>> THEN (IF c = 0 THEN <<>> ELSE <<c>>)
    ELSE LET x == Low(a) + Low(b) + c
         IN  <<x % Base>> \o BAddC(Rest(a), Rest(b), x \div Base)

BAdd(a, b) == BAddC(a, b, 0)

\* a - b - c for a >= b + c, limb by limb with borrow c, not yet trimmed
RECURSIVE BSubC(_, _, _)
BSubC(a, b, c) ==
    IF a = <<>> THEN <<>>
    ELSE LET x == a[1] - Low(b) - c
         IN  IF x < 0 THEN <<x + Base>> \o BSubC(Tail(a), Rest(b), 1)
             ELSE <<x>> \o BSubC(Tail(a), Rest(b), 0)

BSub(a, b) == BTrim(BSubC(a, b, 0))

\* compare from limb i downwards: -1, 0, 1
RECURSIVE BCmpFrom(_, _, _)
BCmpFrom(a, b, i) ==
    IF i = 0 THEN 0
    ELSE IF a[i] < b[i] THEN -1
    ELSE IF a[i] > b[i] THEN 1
    ELSE BCmpFrom(a, b, i - 1)

BCmp(a, b) ==
    IF Len(a) < Len(b) THEN -1
    ELSE IF Len(a) > Len(b) THEN 1
    ELSE BCmpFrom(a, b, Len(a))

\* a * k + c for a limb-sized k
RECURSIVE BMulSmallC(_, _, _)
BMulSmallC(a, k, c) ==
    IF a = <<>> THEN (IF c = 0 THEN <<>> ELSE <<c>>)
    ELSE LET x == a[1] * k + c
         IN  <<x % Base>> \o BMulSmallC(Tail(a), k, x \div Base)

BMulSmall(a, k) == IF k = 0 THEN <<>> ELSE BMulSmallC(a, k, 0)

BShiftLimbs(a, n) == IF a = <<>> THEN <<>> ELSE [i \in 1..n |-> 0] \o a

RECURSIVE BMul(_, _)
BMul(a, b) ==
    IF a = <<>> \/ b = <<>> THEN <<>>
    ELSE BAdd(BMulSmall(a, b[1]), BShiftLimbs(BMul(a, Tail(b)), 1))

\* a * 2^n
BShl(a, n) == BShiftLimbs(BMulSmall(a, 2^(n % LimbBits)), n \div LimbBits)

\* a \div k for a limb-sized k > 0, from limb i downwards with remainder r
RECURSIVE BDivSmallFrom(_, _, _, _)
BDivSmallFrom(a, k, i, r) ==
    IF i = 0 THEN <<>>
    ELSE LET x == r * Base + a[i]
         IN  BDivSmallFrom(a, k, i - 1, x % k) \o <<x \div k>>

BDivSmall(a, k) == BTrim(BDivSmallFrom(a, k, Len(a), 0))

\* a \div 2^n
BShr(a, n) ==
    LET w == n \div LimbBits
    IN  IF w >= Len(a) THEN <<>>
        ELSE BDivSmall(SubSeq(a, w + 1, Len(a)), 2^(n % LimbBits))

BBitLen(a) ==
    IF a = <<>> THEN 0 ELSE LimbBits * (Len(a) - 1) + IntBitLen(a[Len(a)])

BIsOdd(a) == a # <<>> /\ a[1] % 2 = 1

\* largest digit q with q * d <= r, counting down from an estimate est >= q
RECURSIVE BFixDigit(_, _, _)
BFixDigit(r, d, est) ==
    IF BCmp(BMulSmall(d, est), r) > 0 THEN BFixDigit(r, d, est - 1) ELSE est

\* the two top limbs of r, seen from the top limb n of the divisor
BTop(r, n) == (IF Len(r) > n THEN r[n + 1] ELSE 0) * Base + r[n]

\* the quotient digit r \div d for r < d * Base, the top limb of d >= Base/2
BQuotDigit(r, d) ==
    IF BCmp(r, d) < 0 THEN 0
    ELSE BFixDigit(r, d, Min(Base - 1, BTop(r, Len(d)) \div d[Len(d)]))

\* one step of the long division: the digit qd taken from the remainder r
BDivTake(r, d, q, qd) == [q |-> <<qd>> \o q, r |-> BSub(r, BMulSmall(d, qd))]

BDivDigit(r, d, q) == BDivTake(r, d, q, BQuotDigit(r, d))

\* schoolbook long division of the limbs a[1..i] by d, most significant first:
\* [q |-> quotient, r |-> remainder]
RECURSIVE BDivFrom(_, _, _, _)
BDivFrom(a, d, i, acc) ==
    IF i = 0 THEN acc
    ELSE BDivFrom(a, d, i - 1, BDivDigit(BTrim(<<a[i]>> \o acc.r), d, acc.q))

BDivResult(res) == [q |-> BTrim(res.q), exact |-> res.r = <<>>]

BDivRun(a, d) == BDivResult(BDivFrom(a, d, Len(a), [q |-> <<>>, r |-> <<>>]))

\* both operands shifted so that the top limb of d is >= Base/2
BDivNorm(a, d, s) == BDivRun(BShl(a, s), BShl(d, s))

\* [q |-> a \div d, exact |-> a % d = 0] for d > 0
BDiv(a, d) == BDivNorm(a, d, LimbBits - IntBitLen(d[Len(d)]))

RECURSIVE BPow10(_)
BPow10(k) == IF k = 0 THEN <<1>> ELSE BMulSmall(BPow10(k - 1), 10)


(***************************************************************************)
(* Python numbers.  An int is [k |-> "int", v |-> n].  A float is          *)
(* [k |-> "float", c, s, m, e]: class c is "fin", "inf" or "nan", s is the *)
(* sign (1 or -1), and a finite float is s * m * 2^e with m < 2^53; m is   *)
(* normalised (m >= 2^52) unless e is the least exponent (subnormals),     *)
(* and zero is m = <<>>, e = 0.  So equal floats are equal records, but    *)
(* for the two zeros and NaN, which FloatEq handles as == does.            *)
(***************************************************************************)
\* binary64: 53-bit significands, least exponent of a significand bit -1074,
\* greatest exponent of a 53-bit significand 971 (sys.float_info)
MantBits == 53

ExpMin == -1074

ExpMax == 971

PyInt(n) == [k |-> "int", v |-> n]

Fin(s, m, e) == [k |-> "float", c |-> "fin", s |-> s, m |-> m, e |-> e]

Zero(s) == Fin(s, <<>>, 0)

Inf(s) == [k |-> "float", c |-> "inf", s |-> s, m |-> <<>>, e |-> 0]

NaN == [k |-> "float", c |-> "nan", s |-> 1, m |-> <<>>, e |-> 0]

Raise(name) == [k |-> "exc", name |-> name]

IsZero(x) == x.c = "fin" /\ x.m = <<>>

\* q \div 2^t rounded to nearest, ties to even; sticky says that the exact
\* value lies strictly above q (bits were already dropped below q)
\* upper is q \div 2^t, c compares the bits dropped with half a unit of upper
RoundTie(upper, c, sticky) ==
    IF c > 0 \/ (c = 0 /\ (sticky \/ BIsOdd(upper)))
    THEN BAdd(upper, <<1>>) ELSE upper

RoundUp(upper, q, t, sticky) ==
    RoundTie(upper, BCmp(BSub(q, BShl(upper, t)), BShl(<<1>>, t - 1)), sticky)

RoundShift(q, t, sticky) == RoundUp(BShr(q, t), q, t, sticky)

\* overflow: beyond the greatest exponent the result is an infinity
Cap(s, m, ef) == IF ef > ExpMax THEN Inf(s) ELSE Fin(s, m, ef)

\* a significand that rounding carried to 2^MantBits is renormalised
Pack(s, m0, ef) ==
    IF m0 = <<>> THEN Zero(s)
    ELSE IF BBitLen(m0) > MantBits THEN Cap(s, BShr(m0, 1), ef + 1)
    ELSE Cap(s, m0, ef)

\* t bits of q are dropped (t > 0) or q is shifted up to a full significand
RoundAt(s, q, sticky, e, t) ==
    Pack(s, IF t > 0 THEN RoundShift(q, t, sticky) ELSE BShl(q, -t), e + t)

\* the float nearest to s * (q + f) * 2^e, where 0 <= f < 1 and f > 0 iff sticky
RoundToDouble(s, q, sticky, e) ==
    RoundAt(s, q, sticky, e, Max(BBitLen(q) - MantBits, ExpMin - e))

RatRounded(s, res, e) == RoundToDouble(s, res.q, ~res.exact, e)

\* the quotient of n * 2^k by d has one bit more than a significand
RatScaled(s, n, d, e, k) ==
    RatRounded(s, BDiv(IF k >= 0 THEN BShl(n, k) ELSE n,
                       IF k >= 0 THEN d ELSE BShl(d, -k)), e - k)

\* the float nearest to s * (n / d) * 2^e for naturals n > 0, d > 0
RatToDouble(s, n, d, e) ==
    RatScaled(s, n, d, e, MantBits + 1 - (BBitLen(n) - BBitLen(d)))

Sign(n) == IF n < 0 THEN -1 ELSE 1

Abs(n) == IF n < 0 THEN -n ELSE n

\* a natural below 2^MantBits as a float: exact
NatToFloat(s, n) ==
    IF n = 0 THEN Zero(s)
    ELSE Fin(s, BShl(BFromInt(n), MantBits - IntBitLen(n)),
             IntBitLen(n) - MantBits)

\* int -> float, as the arithmetic operators coerce a mixed operand
ToFloat(x) == IF x.k = "float" THEN x ELSE NatToFloat(Sign(x.v), Abs(x.v))

DecimalToFloat(n, k) ==
    IF n = <<>> THEN Zero(1) ELSE RatToDouble(1, n, BPow10(k), 0)

\* the float literal <ip>.<frac> with k fractional digits, e.g. 0.00105 is
\* FloatLit(0, 105, 5)
FloatLit(ip, frac, k) ==
    DecimalToFloat(BAdd(BMul(BFromInt(ip), BPow10(k)), BFromInt(frac)), k)

\* float.__eq__ / __lt__ / __ge__
FloatEq(a, b) ==
    /\ a.c # "nan" /\ b.c # "nan"
    /\ \/ a = b
       \/ IsZero(a) /\ IsZero(b)

\* the exact sum s1*m1*2^e + s2*m2*2^e of two aligned finite operands
SignedSum(sm, e) ==
    IF sm.m = <<>> THEN Zero(1) ELSE RoundToDouble(sm.s, sm.m, FALSE, e)

Difference(s1, m1, s2, m2, c) ==
    IF c >= 0 THEN [s |-> s1, m |-> BSub(m1, m2)]
    ELSE [s |-> s2, m |-> BSub(m2, m1)]

AddAligned(s1, m1, s2, m2, e) ==
    SignedSum(IF s1 = s2 THEN [s |-> s1, m |-> BAdd(m1, m2)]
              ELSE Difference(s1, m1, s2, m2, BCmp(m1, m2)), e)

AddAt(a, b, e0) ==
    AddAligned(a.s, BShl(a.m, a.e - e0), b.s, BShl(b.m, b.e - e0), e0)

\* float + float
FloatAdd(a, b) ==
    IF a.c = "nan" \/ b.c = "nan" THEN NaN
    ELSE IF a.c = "inf" THEN (IF b.c = "inf" /\ b.s # a.s THEN NaN ELSE a)
    ELSE IF b.c = "inf" THEN b
    ELSE IF IsZero(a) /\ IsZero(b) THEN Zero(IF a.s = b.s THEN a.s ELSE 1)
    ELSE IF IsZero(a) THEN b
    ELSE IF IsZero(b) THEN a
    \* an operand below a quarter of the other's last place is rounded away
    ELSE IF b.e + MantBits + 2 < a.e THEN a
    ELSE IF a.e + MantBits + 2 < b.e THEN b
    ELSE AddAt(a, b, Min(a.e, b.e))

FloatNeg(a) == IF a.c = "nan" THEN a ELSE [a EXCEPT !.s = -a.s]

FloatSub(a, b) == FloatAdd(a, FloatNeg(b))

FloatMul(a, b) ==
    IF a.c = "nan" \/ b.c = "nan" THEN NaN
    ELSE IF a.c = "inf" \/ b.c = "inf" THEN
        (IF IsZero(a) \/ IsZero(b) THEN NaN ELSE Inf(a.s * b.s))
    ELSE IF IsZero(a) \/ IsZero(b) THEN Zero(a.s * b.s)
    ELSE RoundToDouble(a.s * b.s, BMul(a.m, b.m), FALSE, a.e + b.e)

\* Mutant of FloatDiv: IEEE division, which does not raise on a zero divisor
FloatDivNoRaise(a, b) ==
    IF a.c = "nan" \/ b.c = "nan" THEN NaN
    ELSE IF IsZero(b) THEN (IF IsZero(a) THEN NaN ELSE Inf(a.s * b.s))
    ELSE IF a.c = "inf" THEN (IF b.c = "inf" THEN NaN ELSE Inf(a.s * b.s))
    ELSE IF b.c = "inf" \/ IsZero(a) THEN Zero(a.s * b.s)
    ELSE RatToDouble(a.s * b.s, a.m, b.m, a.e - b.e)

\* float / float: Python raises on a zero divisor before dividing
FloatDiv(a, b) ==
    IF b.c = "fin" /\ IsZero(b) THEN Raise("ZeroDivisionError")
    ELSE IF a.c = "nan" \/ b.c = "nan" THEN NaN
    ELSE IF a.c = "inf" THEN (IF b.c = "inf" THEN NaN ELSE Inf(a.s * b.s))
    ELSE IF b.c = "inf" \/ IsZero(a) THEN Zero(a.s * b.s)
    ELSE RatToDouble(a.s * b.s, a.m, b.m, a.e - b.e)

IsNegative(d) == d.c # "nan" /\ d.s = -1

FloatLess(a, b) ==
    /\ a.c # "nan" /\ b.c # "nan"
    /\ ~FloatEq(a, b)
    /\ IsNegative(FloatSub(a, b))

FloatGe(a, b) == a.c # "nan" /\ b.c # "nan" /\ ~FloatLess(a, b)

IsFinite(x) == x.k = "int" \/ (x.k = "float" /\ x.c = "fin")

(***************************************************************************)
(* The operators of the source on Python numbers, with int/float coercion. *)
(* An operand that is a raised exception propagates.                       *)
(***************************************************************************)
PySub(a, b) ==
    IF a.k = "exc" THEN a
    ELSE IF b.k = "exc" THEN b
    ELSE IF a.k = "int" /\ b.k = "int" THEN PyInt(a.v - b.v)
    ELSE FloatSub(ToFloat(a), ToFloat(b))

PyMul(a, b) ==
    IF a.k = "exc" THEN a
    ELSE IF b.k = "exc" THEN b
    ELSE IF a.k = "int" /\ b.k = "int" THEN PyInt(a.v * b.v)
    ELSE FloatMul(ToFloat(a), ToFloat(b))

\* true division: int / int is a float too
PyDiv(a, b) ==
    IF a.k = "exc" THEN a
    ELSE IF b.k = "exc" THEN b
    ELSE IF a.k = "int" /\ b.k = "int" THEN
        (IF b.v = 0 THEN Raise("ZeroDivisionError")
         ELSE IF a.v = 0 THEN Zero(IF b.v < 0 THEN -1 ELSE 1)
         ELSE RatToDouble(Sign(a.v) * Sign(b.v),
                          BFromInt(Abs(a.v)), BFromInt(Abs(b.v)), 0))
    ELSE FloatDiv(ToFloat(a), ToFloat(b))

DecimalRounded(s, n, nd) ==
    IF n = <<>> THEN Zero(s) ELSE RatToDouble(s, n, BPow10(nd), 0)

\* round(x, nd) for nd >= 0: an int is returned as it is, so is a float that
\* is not finite; a finite float is rounded to the nearest multiple of 10^-nd
\* of its exact value (ties to even) and that decimal is converted back to
\* the nearest float
PyRound(x, nd) ==
    IF x.k # "float" \/ x.c # "fin" \/ IsZero(x) THEN x
    ELSE IF x.e >= 0 THEN x  \* an integer value: nothing to round
    ELSE DecimalRounded(x.s, RoundShift(BMul(x.m, BPow10(nd)), -x.e, FALSE), nd)

\* isinstance(x, (int, float))
IsIntOrFloat(x) == x.k \in {"int", "float"}

(***************************************************************************)
(* The module-level literals (lines 20-25).  X3 and Y2 are int literals.   *)
(***************************************************************************)
LitX1 == FloatLit(0, 105, 5)

LitX2 == FloatLit(0, 35, 4)

LitX3 == PyInt(30)

LitY1 == FloatLit(0, 5, 2)

LitY2 == PyInt(10)

LitY3 == FloatLit(0, 5, 2)

DefaultCalibration ==
    [x1 |-> LitX1, x2 |-> LitX2, x3 |-> LitX3,
     y1 |-> LitY1, y2 |-> LitY2, y3 |-> LitY3]

\* The source's literals edited so that a segment is degenerate (equal x) or
\* flat (equal y): the configurations the error-handling sections speak of.
EditedCalibrations ==
    { [DefaultCalibration EXCEPT !.x1 = LitX2],
      [DefaultCalibration EXCEPT !.x3 = LitX2],
      [DefaultCalibration EXCEPT !.y1 = LitY2],
      [DefaultCalibration EXCEPT !.y3 = LitY2] }

(***************************************************************************)
(* The values a client can send as ?pressure=...: what float() makes of    *)
(* the query string, or a string that is no number.                        *)
(***************************************************************************)
NotANumber == [k |-> "str"]

\* 1e308: the float nearest to 10^308 is 5010420900022432 * 2^971
Huge == Fin(1, <<18592, 3031, 13262, 142>>, ExpMax)

Pressures ==
    { Zero(1), FloatLit(0, 1, 3), LitY1, FloatLit(5, 0, 1), ToFloat(LitY2),
      FloatLit(10, 1, 7), FloatLit(10, 1, 4), Huge, Inf(1),
      FloatNeg(FloatLit(1, 0, 1)), NaN, NotANumber }

\* the number of requests a behaviour serves
MaxRequests == 2

Unset == [k |-> "unset"]

VARIABLES
    proc,          \* "importing", "serving", or "crashed" (the import raised)
    startupError,  \* the exception that ended the import, or "none"
    X1, X2, X3, Y1, Y2, Y3,   \* the module globals of lines 20-25
    ML, MV, AL, AV,           \* the module globals of lines 28-31
    log            \* the requests served so far, each with its response

vars == <<proc, startupError, X1, X2, X3, Y1, Y2, Y3, ML, MV, AL, AV, log>>

calibration == <<X1, X2, X3, Y1, Y2, Y3>>

parameters == <<ML, MV, AL, AV>>

InitWith(c) ==
    /\ proc = "importing"
    /\ startupError = "none"
    /\ X1 = c.x1 /\ X2 = c.x2 /\ X3 = c.x3
    /\ Y1 = c.y1 /\ Y2 = c.y2 /\ Y3 = c.y3
    /\ ML = Unset /\ MV = Unset /\ AL = Unset /\ AV = Unset
    /\ log = <<>>

Init == InitWith(DefaultCalibration)

InitEdited == \E c \in {DefaultCalibration} \cup EditedCalibrations : InitWith(c)

(***************************************************************************)
(* Lines 27-31, run once when the module is imported.  A statement that    *)
(* raises ends the import: the names after it stay unbound and the server  *)
(* never starts.                                                           *)
(***************************************************************************)
\* Mutant of SlopeL: the run of the liquid segment taken from the wrong point
SlopeLWrongRun == PyDiv(PySub(Y2, Y1), PySub(X3, X1))

SlopeL == PyDiv(PySub(Y2, Y1), PySub(X2, X1))

SlopeV == PyDiv(PySub(Y3, Y2), PySub(X3, X2))

ImportModule ==
    /\ proc = "importing"
    /\ \E ml \in {SlopeL}, mv \in {SlopeV} :
         IF ml.k = "exc" THEN
             /\ proc' = "crashed"
             /\ startupError' = ml.name
             /\ UNCHANGED parameters
         ELSE IF mv.k = "exc" THEN
             /\ proc' = "crashed"
             /\ startupError' = mv.name
             /\ ML' = ml
             /\ UNCHANGED <<MV, AL, AV>>
         ELSE
             /\ proc' = "serving"
             /\ startupError' = "none"
             /\ ML' = ml
             /\ MV' = mv
             /\ AL' = PySub(Y2, PyMul(ml, X2))
             /\ AV' = PySub(Y3, PyMul(mv, X3))
    /\ UNCHANGED <<calibration, log>>

(***************************************************************************)
(* The request handlers.  Each is an async def without an await, so it     *)
(* runs to completion on the event loop: one action per request.           *)
(***************************************************************************)
NoPressure == [k |-> "none"]

\* the server takes requests once the import has succeeded
Accepting == proc = "serving" /\ Len(log) < MaxRequests

\* one served request: reached says whether the handler body was entered
Entry(route, q, reached, resp) ==
    [route |-> route, pressure |-> q, reached |-> reached,
     status |-> resp.status, exc |-> resp.exc, body |-> resp.body]

Ok(body) == [status |-> 200, exc |-> "none", body |-> body]

\* lines 33-44
Root ==
    /\ Accepting
    /\ log' = Append(log, Entry("/", NoPressure, TRUE,
                 Ok([message |-> "Phase Change Diagram API",
                     version |-> "1.0.0"])))
    /\ UNCHANGED <<proc, startupError, calibration, parameters>>

\* Mutant of HealthCheck: a handler that rebinds a module global
HealthCheckWrites ==
    /\ Accepting
    /\ log' = Append(log, Entry("/health", NoPressure, TRUE,
                 Ok([status |-> "healthy", message |-> "API is running"])))
    /\ ML' = Zero(1)
    /\ UNCHANGED <<proc, startupError, calibration, MV, AL, AV>>

\* lines 46-49
HealthCheck ==
    /\ Accepting
    /\ log' = Append(log, Entry("/health", NoPressure, TRUE,
                 Ok([status |-> "healthy", message |-> "API is running"])))
    /\ UNCHANGED <<proc, startupError, calibration, parameters>>

\* lines 101-119
ConstantsBody ==
    [constants |-> [x1 |-> X1, x2 |-> X2, x3 |-> X3,
                    y1 |-> Y1, y2 |-> Y2, y3 |-> Y3],
     calculated_parameters |-> [ml |-> ML, mv |-> MV, al |-> AL, av |-> AV]]

GetConstants ==
    /\ Accepting
    /\ log' = Append(log, Entry("/constants", NoPressure, TRUE, Ok(ConstantsBody)))
    /\ UNCHANGED <<proc, startupError, calibration, parameters>>

\* Mutant of QueryValid: the ge=0 constraint left out
QueryValidNoBound(q) == q.k = "float"

\* pressure: float = Query(..., ge=0): the parameter must parse as a float and
\* be >= 0 (NaN compares false), or the framework answers 422 itself and the
\* handler is not called
QueryValid(q) == q.k = "float" /\ FloatGe(q, Zero(1))

\* Mutant of ValidationError: the rejection answered with 400
ValidationErrorAs400 ==
    [status |-> 400, exc |-> "RequestValidationError",
     body |-> [detail |-> "query.pressure"]]

ValidationError ==
    [status |-> 422, exc |-> "RequestValidationError",
     body |-> [detail |-> "query.pressure"]]

\* the response model of lines 14-17: two float fields
PhaseChangeResponse(l, v) ==
    [specific_volume_liquid |-> ToFloat(l), specific_volume_vapor |-> ToFloat(v)]

\* Mutant of SpecificVolumeLiquid: the vapor intercept used for the liquid
SpecificVolumeLiquidWrongIntercept(pressure) == PyDiv(PySub(pressure, AV), ML)

\* Mutant of SpecificVolumeLiquid: the subtraction the wrong way round
SpecificVolumeLiquidReversed(pressure) == PyDiv(PySub(AL, pressure), ML)

\* line 71
SpecificVolumeLiquid(pressure) == PyDiv(PySub(pressure, AL), ML)

\* Mutant of SpecificVolumeVapor: the liquid slope used for the vapor
SpecificVolumeVaporWrongSlope(pressure) == PyDiv(PySub(pressure, AV), ML)

\* line 72
SpecificVolumeVapor(pressure) == PyDiv(PySub(pressure, AV), MV)

\* lines 74-83, with an exception raised by line 71 or 72 passing through
\* (line 72 is not run when line 71 raised)
CheckAndReturn(specific_volume_liquid, specific_volume_vapor) ==
    IF specific_volume_liquid.k = "exc" THEN specific_volume_liquid
    ELSE IF specific_volume_vapor.k = "exc" THEN specific_volume_vapor
    ELSE IF ~(IsIntOrFloat(specific_volume_liquid)
              /\ IsIntOrFloat(specific_volume_vapor))
         THEN Raise("ValueError")
    ELSE [k |-> "return",
          value |-> PhaseChangeResponse(PyRound(specific_volume_liquid, 6),
                                        PyRound(specific_volume_vapor, 6))]

\* the try block, lines 70-83: the value returned or the exception raised
TryBlock(pressure) ==
    CheckAndReturn(SpecificVolumeLiquid(pressure), SpecificVolumeVapor(pressure))

HTTPException(status_code, exc, detail) ==
    [status |-> status_code, exc |-> exc, body |-> [detail |-> detail]]

\* Mutant of ExceptClauses: the ZeroDivisionError clause missing
ExceptClausesNoZeroDivision(r) ==
    IF r.k = "return" THEN Ok(r.value)
    ELSE IF r.name = "ValueError" THEN
        HTTPException(400, r.name, "Error en los calculos: Calculo invalido")
    ELSE HTTPException(500, r.name, "Error interno del servidor")

\* the except clauses, lines 85-99 (the details in ASCII)
ExceptClauses(r) ==
    IF r.k = "return" THEN Ok(r.value)
    ELSE IF r.name = "ZeroDivisionError" THEN
        HTTPException(400, r.name, "Error de division por cero en los calculos")
    ELSE IF r.name = "ValueError" THEN
        HTTPException(400, r.name, "Error en los calculos: Calculo invalido")
    ELSE HTTPException(500, r.name, "Error interno del servidor")

\* lines 51-99: the framework validates the query parameter and, if it is
\* valid, calls the handler body
PhaseChangeDiagramEntry(q) ==
    IF QueryValid(q)
    THEN Entry("/phase-change-diagram", q, TRUE, ExceptClauses(TryBlock(q)))
    ELSE Entry("/phase-change-diagram", q, FALSE, ValidationError)

GetPhaseChangeDiagram ==
    /\ Accepting
    /\ \E q \in Pressures : log' = Append(log, PhaseChangeDiagramEntry(q))
    /\ UNCHANGED <<proc, startupError, calibration, parameters>>

Next ==
    \/ ImportModule
    \/ Root
    \/ HealthCheck
    \/ GetPhaseChangeDiagram
    \/ GetConstants

Spec == Init /\ [][Next]_vars

\* the same program with the calibration literals edited
SpecEdited == InitEdited /\ [][Next]_vars

(***************************************************************************)
(* Properties.                                                             *)
(***************************************************************************)
PhaseRoute == "/phase-change-diagram"

\* the requests to /phase-change-diagram served so far
PhaseEntries == {i \in 1..Len(log) : log[i].route = PhaseRoute}

\* those among them that sent a number as pressure
FloatEntries == {i \in PhaseEntries : log[i].pressure.k = "float"}

\* those whose handler returned a PhaseChangeResponse
Returned == {i \in PhaseEntries : log[i].status = 200}

Liquid(i) == log[i].body.specific_volume_liquid

Vapor(i) == log[i].body.specific_volume_vapor

HasVolumes(body) ==
    \/ "specific_volume_liquid" \in DOMAIN body
    \/ "specific_volume_vapor" \in DOMAIN body

FloatLe(a, b) == FloatGe(b, a)

\* the parameters as section 4.1 derives them from the default constants
DefaultML == PyDiv(PySub(LitY2, LitY1), PySub(LitX2, LitX1))

DefaultMV == PyDiv(PySub(LitY3, LitY2), PySub(LitX3, LitX2))

DefaultAL == PySub(LitY2, PyMul(DefaultML, LitX2))

DefaultAV == PySub(LitY3, PyMul(DefaultMV, LitX3))

NonNegative == {q \in Pressures : q.k = "float" /\ FloatGe(q, Zero(1))}

\* round((p - AL)/ML, 6) and round((p - AV)/MV, 6) for every pressure >= 0
ExpectedVolumes ==
    [q \in NonNegative |->
        [specific_volume_liquid |->
             PyRound(PyDiv(PySub(q, DefaultAL), DefaultML), 6),
         specific_volume_vapor |->
             PyRound(PyDiv(PySub(q, DefaultAV), DefaultMV), 6)]]

\* C1: with the default constants, every request with a pressure >= 0 returns
\* specific_volume_liquid = round((p - AL)/ML, 6) and specific_volume_vapor =
\* round((p - AV)/MV, 6), and pressure 0 returns two finite numbers.
C1_FormulaOfVolumes ==
    \A i \in FloatEntries :
        FloatGe(log[i].pressure, Zero(1)) =>
            /\ log[i].status = 200
            /\ log[i].body = ExpectedVolumes[log[i].pressure]
            /\ IsZero(log[i].pressure) => IsFinite(Liquid(i)) /\ IsFinite(Vapor(i))

C1_Witness ==
    \E i \in Returned :
        /\ IsZero(log[i].pressure)
        /\ IsFinite(Liquid(i)) /\ IsFinite(Vapor(i))

\* C2: a request with a negative pressure is rejected before the handler body:
\* the volume formulas are not evaluated and no PhaseChangeResponse is produced.
C2_NegativeRejected ==
    \A i \in FloatEntries :
        FloatLess(log[i].pressure, Zero(1)) =>
            /\ ~log[i].reached
            /\ log[i].exc = "RequestValidationError"
            /\ log[i].status # 200
            /\ ~HasVolumes(log[i].body)

C2_Witness ==
    \E i \in FloatEntries :
        /\ log[i].pressure = FloatNeg(FloatLit(1, 0, 1))
        /\ ~log[i].reached

\* C7 as stated: for pressures 0 <= p1 < p2 the returned (rounded) liquid
\* volumes are strictly increasing.
C7_StrictlyIncreasing ==
    \A i, j \in Returned :
        FloatLess(log[i].pressure, log[j].pressure) =>
            FloatLess(Liquid(i), Liquid(j))

\* C7 amended: for pressures 0 <= p1 < p2 the returned (rounded) liquid
\* volumes are non-decreasing; pressures that differ by little round to the
\* same 6-decimal volume.
C7_NonDecreasing ==
    \A i, j \in Returned :
        FloatLess(log[i].pressure, log[j].pressure) =>
            FloatLe(Liquid(i), Liquid(j))

C7_Witness ==
    \E i, j \in Returned :
        /\ FloatLess(log[i].pressure, log[j].pressure)
        /\ FloatEq(Liquid(i), Liquid(j))
        /\ IsFinite(Liquid(i))

Five == FloatLit(5, 0, 1)

FiveServed == \E i \in Returned : log[i].pressure = Five

\* C8 as stated: ML is 3551.724138 and AL is -2.431034 to 6 decimals, and
\* pressure 5.0 returns specific_volume_liquid 0.002095.
C8_StatedValues ==
    proc = "serving" =>
        /\ PyRound(ML, 6) = FloatLit(3551, 724138, 6)
        /\ PyRound(AL, 6) = FloatNeg(FloatLit(2, 431034, 6))
        /\ \A i \in Returned :
               log[i].pressure = Five => Liquid(i) = FloatLit(0, 2095, 6)

\* C8 amended: ML is 4061.224490 and AL is -4.214286 to 6 decimals, and
\* pressure 5.0 returns specific_volume_liquid 0.002269.
C8_ComputedValues ==
    proc = "serving" =>
        /\ PyRound(ML, 6) = FloatLit(4061, 224490, 6)
        /\ PyRound(AL, 6) = FloatNeg(FloatLit(4, 214286, 6))
        /\ \A i \in Returned :
               log[i].pressure = Five => Liquid(i) = FloatLit(0, 2269, 6)

C8_Witness == proc = "serving" /\ FiveServed

\* a slope of zero among the derived parameters
IsZeroSlope(x) == x.k = "float" /\ IsZero(x)

ZeroDivisionDetail == [detail |-> "Error de division por cero en los calculos"]

\* C3 as stated: every failure is answered 400 (invalid input, negative
\* pressure included, and a division by zero) or 500 (anything else).
C3_FailuresAre400Or500 ==
    \A i \in PhaseEntries :
        /\ log[i].exc \in {"RequestValidationError", "ZeroDivisionError",
                           "ValueError"} => log[i].status = 400
        /\ log[i].exc \notin {"none", "RequestValidationError",
                              "ZeroDivisionError", "ValueError"}
               => log[i].status = 500

\* C3 amended: a pressure that is negative or no valid number is rejected by
\* the query validation with 422; a ZeroDivisionError or ValueError raised in
\* the handler is answered 400, any other exception 500, and no failure gets
\* another status.
C3_FailureStatus ==
    \A i \in PhaseEntries :
        /\ ~QueryValid(log[i].pressure) <=> log[i].exc = "RequestValidationError"
        /\ log[i].exc = "RequestValidationError" => log[i].status = 422
        /\ log[i].exc \in {"ZeroDivisionError", "ValueError"}
               => log[i].status = 400
        /\ log[i].exc \notin {"none", "RequestValidationError",
                              "ZeroDivisionError", "ValueError"}
               => log[i].status = 500
        /\ log[i].exc = "none" <=> log[i].status = 200

C3_Witness ==
    /\ \E i \in PhaseEntries :
           log[i].pressure = FloatNeg(FloatLit(1, 0, 1)) /\ log[i].status = 422
    /\ \E i \in PhaseEntries :
           log[i].exc = "ZeroDivisionError" /\ log[i].status = 400

\* a segment between two calibration points with the same x
Degenerate ==
    \/ FloatEq(ToFloat(X1), ToFloat(X2))
    \/ FloatEq(ToFloat(X2), ToFloat(X3))

\* C4: with a degenerate segment (X1 = X2 or X2 = X3) the derivation of the
\* parameters fails at import (the ZeroDivisionError of line 28 or 29 is the
\* configuration error), no infinite slope is bound, and no request is ever
\* served.
C4_DegenerateNeverServes ==
    Degenerate =>
        /\ proc \in {"importing", "crashed"}
        /\ proc = "crashed" <=> startupError = "ZeroDivisionError"
        /\ ML \in {Unset} \cup {x \in {ML} : IsFinite(x)}
        /\ MV = Unset
        /\ log = <<>>

C4_Witness == Degenerate /\ proc = "crashed" /\ startupError = "ZeroDivisionError"

\* C5: whenever a computed volume is NaN or infinite the evaluation fails and
\* no result is returned: every result returned holds two finite numbers.
C5_ResultsFinite ==
    \A i \in Returned : IsFinite(Liquid(i)) /\ IsFinite(Vapor(i))

\* C6: if a derived slope is zero, every request that reaches the evaluation
\* fails with the division-by-zero error (400, with its detail) and returns no
\* volumes, not even the one that was computed.
C6_ZeroSlopeFails ==
    (proc = "serving" /\ (IsZeroSlope(ML) \/ IsZeroSlope(MV))) =>
        \A i \in PhaseEntries :
            log[i].reached =>
                /\ log[i].status = 400
                /\ log[i].exc = "ZeroDivisionError"
                /\ log[i].body = ZeroDivisionDetail

\* the liquid slope is fine and the vapor slope is zero: line 71 succeeds
\* and line 72 raises
C6_Witness ==
    /\ proc = "serving" /\ ~IsZeroSlope(ML) /\ IsZeroSlope(MV)
    /\ \E i \in PhaseEntries : log[i].reached /\ log[i].status = 400

\* C9: no handler writes the module globals, so equal requests get equal
\* responses whatever was served before, and /constants always reports the
\* ten values bound at import.
SameRequest(i, j) ==
    log[i].route = log[j].route /\ log[i].pressure = log[j].pressure

SameResponse(i, j) ==
    log[i].status = log[j].status /\ log[i].body = log[j].body

DefaultConstantsBody ==
    [constants |-> DefaultCalibration,
     calculated_parameters |-> [ml |-> DefaultML, mv |-> DefaultMV,
                                al |-> DefaultAL, av |-> DefaultAV]]

Deterministic ==
    /\ \A i, j \in 1..Len(log) : SameRequest(i, j) => SameResponse(i, j)
    /\ \A i \in 1..Len(log) :
           log[i].route = "/constants" => log[i].body = DefaultConstantsBody

C9_HandlersWriteNothing ==
    /\ [][proc = "serving" => UNCHANGED <<calibration, parameters>>]_vars
    /\ []Deterministic

C9_Witness ==
    /\ \E i, j \in Returned : i < j /\ SameRequest(i, j) /\ SameResponse(i, j)
    /\ <<ML, MV, AL, AV>> = <<DefaultML, DefaultMV, DefaultAL, DefaultAV>>

\* the calibration points as floats
FX1 == ToFloat(LitX1)

FX2 == ToFloat(LitX2)

FX3 == ToFloat(LitX3)

FY1 == ToFloat(LitY1)

FY2 == ToFloat(LitY2)

AtCalibrationPoints ==
    \A i \in Returned :
        /\ FloatEq(log[i].pressure, FY1)
               => FloatEq(Liquid(i), FX1) /\ FloatEq(Vapor(i), FX3)
        /\ FloatEq(log[i].pressure, FY2)
               => FloatEq(Liquid(i), FX2) /\ FloatEq(Vapor(i), FX2)
        /\ (FloatGe(log[i].pressure, FY1) /\ FloatLe(log[i].pressure, FY2))
               => FloatLe(Liquid(i), Vapor(i))

AboveY2 == {i \in FloatEntries : FloatLess(FY2, log[i].pressure)}

\* C10 as stated: the volumes returned at the calibration pressures are the
\* calibration volumes, liquid <= vapor for pressures in [Y1, Y2], and a
\* pressure above Y2 is accepted and returns liquid > vapor.
C10_LiquidExceedsAboveY2 ==
    /\ AtCalibrationPoints
    /\ \A i \in AboveY2 :
           log[i].status = 200 /\ FloatLess(Vapor(i), Liquid(i))

\* C10 amended: above Y2 the returned liquid volume is >= the vapor volume;
\* they are equal when the pressure is so close to Y2 that both round to X2.
C10_LiquidNotBelowAboveY2 ==
    /\ AtCalibrationPoints
    /\ \A i \in AboveY2 :
           log[i].status = 200 /\ FloatLe(Vapor(i), Liquid(i))

C10_Witness ==
    /\ \E i \in Returned : FloatEq(log[i].pressure, FY1) /\ FloatEq(Liquid(i), FX1)
    /\ \E i \in AboveY2 : FloatEq(Liquid(i), Vapor(i)) /\ FloatEq(Liquid(i), FX2)

=============================================================================
